---- MODULE Spec2Model ----
(***************************************************************************)
(* Model of ml_metadata/tools/mlmd_bench/thread_runner.cc: the benchmark   *)
(* engine ThreadRunner::Run, its helpers SetUpWorkload,                    *)
(* PrepareStoresForThreads, ExecuteWorkload and MergeThreadStatsAndReport, *)
(* and the closures it schedules on the thread pool.                       *)
(*                                                                         *)
(* The main thread is one process (pc); every scheduled closure is one     *)
(* process (wpc[th]).  Shared memory accesses of the workers               *)
(* (approx_total_done, thread_status_list) are separate steps, so that     *)
(* every interleaving the threads can produce is a behaviour.              *)
(***************************************************************************)
EXTENDS Integers, Sequences, FiniteSets, TLC

\* Bounds of the model.
MaxThreads == 2
MaxOps == 3
NumWorkloads == 2
MaxAborts == 1

\* tensorflow::Status values: OK, the retryable ABORTED, and error codes.
OK == "OK"
ABORTED == "ABORTED"
ErrCodes == {"INTERNAL", "UNAVAILABLE"}
\* Error codes RunOp returns besides ABORTED.
RunOpErrCodes == {"INTERNAL"}

VARIABLES
  num_threads,         \* ThreadRunner::num_threads_
  num_operations,      \* workload->num_operations() of the workload of line 123
  pc,                  \* position of the main thread inside Run
  i,                   \* loop variable of Run (index of the workload)
  ret,                 \* status returned by Run ("none" until it returns)
  op_per_thread,       \* local of Run
  stores,              \* number of client handles created in `stores`
  store_calls,         \* CreateMetadataStore calls of PrepareStoresForThreads
  t,                   \* loop variable of the scheduling loop
  pending,             \* status read at line 153, returned after the join
  prepare_res,         \* status of PrepareStoresForThreads' last creation
  approx_total_done,   \* shared progress counter
  wpc,                 \* position of each scheduled closure
  wworkload,           \* workload captured by each closure
  work_items_index,    \* cursor of ExecuteWorkload, per worker
  reg,                 \* value of approx_total_done read by the increment
  result,              \* status returned by ExecuteWorkload, per worker
  thread_stats_list,   \* ThreadStats slots
  thread_status_list,  \* Status slots
  mlmd_bench_report,   \* per workload, how often its summary was set
  log,                 \* RunOp calls of each worker: <<index, status>>
  setup_calls,         \* history: SetUp invocations per workload
  setup_res,           \* history: result of SetUpWorkload per workload
  teardown_calls,      \* history: TearDown invocations per workload
  teardown_res,        \* history: result of TearDown per workload
  worker_fatal,        \* history: fatal statuses RunOp returned since the
                       \* last SetUpWorkload
  executing,           \* history: workloads whose thread pool was created
  spin                 \* parity of the conflicts RunOp returned beyond MaxAborts

vars == <<num_threads, num_operations, pc, i, ret, op_per_thread, stores,
          store_calls, prepare_res, t, pending, approx_total_done, wpc, wworkload,
          work_items_index, reg, result, thread_stats_list,
          thread_status_list, mlmd_bench_report, log, setup_calls, setup_res,
          teardown_calls, teardown_res, worker_fatal, executing, spin>>

main_locals == <<op_per_thread, stores, store_calls, prepare_res, t, pending,
                 approx_total_done>>
worker_locals == <<wpc, wworkload, work_items_index, reg, result, log>>
slots == <<thread_stats_list, thread_status_list>>
history == <<setup_calls, setup_res, teardown_calls, teardown_res,
             worker_fatal, executing>>
config == <<num_threads, spin>>

Workloads == 0 .. (NumWorkloads - 1)
Threads == 0 .. (num_threads - 1)

----------------------------------------------------------------------------
\* Pure helpers.

\* A variant of OpPerThread that rounds the share up instead of down.
OpPerThreadCeil(total, n) == (total + n - 1) \div n

\* A variant of OpPerThread that never gives a worker an empty share.
OpPerThreadAtLeastOne(total, n) ==
  IF total \div n = 0 THEN 1 ELSE total \div n

\* Line 127: integer division of the declared operation count.
OpPerThread(total, n) == total \div n

\* A variant of WorkItemsStartIndex that is off by one worker.
WorkItemsStartIndexOffByOne(opt, th) == opt * (th + 1)

\* Line 140: first index of worker th.
WorkItemsStartIndex(opt, th) == opt * th

\* A variant of IsFatal that treats ABORTED like any other error.
IsFatalAnyError(status) == status # OK

\* Line 73: a status that is neither OK nor ABORTED ends ExecuteWorkload.
IsFatal(status) == status # OK /\ status # ABORTED

\* Line 148: Status::Update keeps the first error.
StatusUpdate(old, new) == IF old = OK THEN new ELSE old

\* A variant of SetUpWorkloadStatus that drops the status of SetUp.
SetUpWorkloadStatusIgnoreSetUp(create_status, setup_status) == create_status

\* Lines 53-55: SetUpWorkload returns the first error of its two calls.
SetUpWorkloadStatus(create_status, setup_status) ==
  IF create_status # OK THEN create_status ELSE setup_status

\* A variant of PrepareStoresStatus that drops the creation error.
PrepareStoresStatusIgnore(k, e, n) == OK

\* Lines 41-46: PrepareStoresForThreads fails at the first failing creation;
\* k is the index of the failing CreateMetadataStore call (n if none fails).
PrepareStoresStatus(k, e, n) == IF k < n THEN e ELSE OK

\* A variant of PoolJoined that does not wait for the closures.
PoolJoinedNoWait(positions, scheduled) == TRUE

\* The thread pool's destructor (line 155) returns once every closure that was
\* scheduled has run to completion.
PoolJoined(positions, scheduled) ==
  \A th \in DOMAIN positions : th < scheduled => positions[th] = "Done"

\* ThreadStats: a fresh object, Start, Stop, Update and Merge.
NewThreadStats == [starts |-> 0, stops |-> 0, ops |-> 0]
StatsStart(s) == [s EXCEPT !.starts = @ + 1]
StatsStop(s) == [s EXCEPT !.stops = @ + 1]
StatsUpdate(s) == [s EXCEPT !.ops = @ + 1]
StatsMerge(a, b) == [a EXCEPT !.ops = @ + b.ops]

\* A variant of MergeFrom whose loop stops one slot early.
RECURSIVE MergeFromSkipLast(_, _, _)
MergeFromSkipLast(list, k, size) ==
  IF k >= size - 1 THEN list
  ELSE MergeFromSkipLast([list EXCEPT ![0] = StatsMerge(list[0], list[k])],
                         k + 1, size)

\* Lines 94-96: fold slots 1..size-1 into slot 0.
RECURSIVE MergeFrom(_, _, _)
MergeFrom(list, k, size) ==
  IF k >= size THEN list
  ELSE MergeFrom([list EXCEPT ![0] = StatsMerge(list[0], list[k])], k + 1, size)

\* Number of entries of a worker's log with the given status.
RECURSIVE CountStatus(_, _)
CountStatus(seq, s) ==
  IF seq = <<>> THEN 0
  ELSE (IF seq[1][2] = s THEN 1 ELSE 0) + CountStatus(Tail(seq), s)

\* Number of ABORTED results in the logs of workers 0 .. n-1.
RECURSIVE Aborts(_, _)
Aborts(logs, n) ==
  IF n = 0 THEN 0 ELSE CountStatus(logs[n - 1], ABORTED) + Aborts(logs, n - 1)

RECURSIVE SumOps(_, _)
SumOps(list, n) == IF n = 0 THEN 0 ELSE list[n - 1].ops + SumOps(list, n - 1)

----------------------------------------------------------------------------
\* State after construction of the ThreadRunner, at the entry of Run.

Init ==
  /\ num_threads \in 1 .. MaxThreads
  /\ num_operations = 0
  /\ pc = "LoopHead"
  /\ i = 0
  /\ ret = "none"
  /\ op_per_thread = 0
  /\ stores = 0
  /\ store_calls = 0
  /\ prepare_res = "none"
  /\ t = 0
  /\ pending = OK
  /\ approx_total_done = 0
  /\ wpc = [th \in Threads |-> "Idle"]
  /\ wworkload = [th \in Threads |-> 0]
  /\ work_items_index = [th \in Threads |-> 0]
  /\ reg = [th \in Threads |-> 0]
  /\ result = [th \in Threads |-> OK]
  /\ thread_stats_list = [th \in Threads |-> NewThreadStats]
  /\ thread_status_list = [th \in Threads |-> OK]
  /\ mlmd_bench_report = [w \in Workloads |-> [writes |-> 0]]
  /\ log = [th \in Threads |-> <<>>]
  /\ setup_calls = [w \in Workloads |-> 0]
  /\ setup_res = [w \in Workloads |-> "none"]
  /\ teardown_calls = [w \in Workloads |-> 0]
  /\ teardown_res = [w \in Workloads |-> "none"]
  /\ worker_fatal = {}
  /\ executing = {}
  /\ spin = 0

----------------------------------------------------------------------------
\* The main thread: ThreadRunner::Run.

\* Lines 122-125 and 160: the loop test; a new iteration fetches the workload
\* (with its declared operation count) and constructs fresh locals (statistics
\* and status slots, all OK); the end of the loop returns OK.
LoopHead ==
  /\ pc = "LoopHead"
  /\ IF i < NumWorkloads
       THEN /\ num_operations' \in 0 .. MaxOps
            /\ thread_stats_list' = [th \in Threads |-> NewThreadStats]
            /\ thread_status_list' = [th \in Threads |-> OK]
            /\ wpc' = [th \in Threads |-> "Idle"]
            /\ wworkload' = [th \in Threads |-> i]
            /\ work_items_index' = [th \in Threads |-> 0]
            /\ reg' = [th \in Threads |-> 0]
            /\ result' = [th \in Threads |-> OK]
            /\ log' = [th \in Threads |-> <<>>]
            /\ op_per_thread' = 0
            /\ stores' = 0
            /\ store_calls' = 0
            /\ prepare_res' = "none"
            /\ t' = 0
            /\ pending' = OK
            /\ approx_total_done' = 0
            /\ pc' = "SetUpWorkload"
            /\ UNCHANGED ret
       ELSE /\ pc' = "Done"
            /\ ret' = OK
            /\ UNCHANGED <<num_operations, main_locals, worker_locals, slots>>
  /\ UNCHANGED <<config, i, mlmd_bench_report, history>>

\* Line 126 with lines 50-56: create the setup client, call SetUp (only when
\* the client was created), return on error.
SetUpWorkload ==
  /\ pc = "SetUpWorkload"
  /\ \E create_status \in {OK} \cup ErrCodes, setup_status \in {OK} \cup ErrCodes :
       LET called == create_status = OK
           st == SetUpWorkloadStatus(create_status, setup_status)
       IN  /\ (~called => setup_status = OK)
           /\ setup_calls' = [setup_calls EXCEPT ![i] = @ + (IF called THEN 1 ELSE 0)]
           /\ setup_res' = [setup_res EXCEPT ![i] =
                              IF create_status # OK THEN create_status ELSE setup_status]
           /\ IF st # OK
                THEN pc' = "Done" /\ ret' = st
                ELSE pc' = "PrepareStores" /\ UNCHANGED ret
  /\ worker_fatal' = {}
  /\ UNCHANGED <<config, num_operations, i, main_locals, worker_locals, slots,
                 mlmd_bench_report, teardown_calls, teardown_res, executing>>

\* Lines 127-130 with lines 35-47: op_per_thread, then one client per thread;
\* the creation with index k fails (none when k = num_threads).
PrepareStoresForThreads ==
  /\ pc = "PrepareStores"
  /\ op_per_thread' = OpPerThread(num_operations, num_threads)
  /\ \E k \in 0 .. num_threads, e \in ErrCodes :
       LET st == PrepareStoresStatus(k, e, num_threads)
       IN  /\ (k = num_threads => e = "INTERNAL")
           /\ stores' = k
           /\ store_calls' = IF k < num_threads THEN k + 1 ELSE num_threads
           /\ prepare_res' = IF k < num_threads THEN e ELSE OK
           /\ IF st # OK
                THEN pc' = "Done" /\ ret' = st
                ELSE pc' = "CreatePool" /\ UNCHANGED ret
  /\ UNCHANGED <<config, num_operations, i, t, pending, approx_total_done, worker_locals,
                 slots, mlmd_bench_report, history>>

\* Lines 131-138: the summary pointer, the pool and the progress counter.
CreatePool ==
  /\ pc = "CreatePool"
  /\ approx_total_done' = 0
  /\ t' = 0
  /\ executing' = executing \cup {i}
  /\ pc' = "Schedule"
  /\ UNCHANGED <<config, num_operations, i, ret, op_per_thread, stores, store_calls,
                 prepare_res, pending,
                 worker_locals, slots, mlmd_bench_report, setup_calls,
                 setup_res, teardown_calls, teardown_res, worker_fatal>>

\* Lines 139-152: schedule the closure of worker t; line 154-155: after the
\* last one, leave the block (the pool is destroyed, which joins).
Schedule ==
  /\ pc = "Schedule"
  /\ IF t < num_threads
       THEN /\ wpc' = [wpc EXCEPT ![t] = "Start"]
            /\ wworkload' = [wworkload EXCEPT ![t] = i]
            /\ work_items_index' =
                 [work_items_index EXCEPT ![t] = WorkItemsStartIndex(op_per_thread, t)]
            /\ pc' = "CheckStatus"
       ELSE /\ pc' = "Join"
            /\ UNCHANGED <<wpc, wworkload, work_items_index>>
  /\ UNCHANGED <<config, num_operations, i, ret, main_locals, reg, result, log, slots,
                 mlmd_bench_report, history>>

\* Line 153: TF_RETURN_IF_ERROR(curr_status) reads the slot of the worker just
\* scheduled while that worker may write it: the read yields the initial OK or
\* the value the worker has stored.  An error leaves the block through the
\* pool's destructor.
CheckStatus ==
  /\ pc = "CheckStatus"
  /\ \E seen \in {OK, thread_status_list[t]} :
       IF seen # OK
         THEN /\ pending' = seen
              /\ pc' = "Join"
              /\ UNCHANGED t
         ELSE /\ t' = t + 1
              /\ pc' = "Schedule"
              /\ UNCHANGED pending
  /\ UNCHANGED <<config, num_operations, i, ret, op_per_thread, stores, store_calls,
                 prepare_res, approx_total_done, worker_locals, slots, mlmd_bench_report,
                 history>>

\* Line 155 (and the return of line 153): the pool's destructor waits for the
\* scheduled closures; then Run returns the pending error or goes on.
Join ==
  /\ pc = "Join"
  /\ PoolJoined(wpc, IF pending # OK THEN t + 1 ELSE t)
  /\ IF pending # OK
       THEN pc' = "Done" /\ ret' = pending
       ELSE pc' = "TearDown" /\ UNCHANGED ret
  /\ UNCHANGED <<config, num_operations, i, main_locals, worker_locals, slots,
                 mlmd_bench_report, history>>

\* A variant of TearDown that goes on to the merge whatever TearDown returns.
TearDownIgnoreError ==
  /\ pc = "TearDown"
  /\ \E st \in {OK} \cup ErrCodes :
       /\ teardown_calls' = [teardown_calls EXCEPT ![i] = @ + 1]
       /\ teardown_res' = [teardown_res EXCEPT ![i] = st]
  /\ pc' = "Merge"
  /\ UNCHANGED <<config, num_operations, i, ret, main_locals, worker_locals,
                 slots, mlmd_bench_report, setup_calls, setup_res,
                 worker_fatal, executing>>

\* Line 156: TearDown, return on error.
TearDown ==
  /\ pc = "TearDown"
  /\ \E st \in {OK} \cup ErrCodes :
       /\ teardown_calls' = [teardown_calls EXCEPT ![i] = @ + 1]
       /\ teardown_res' = [teardown_res EXCEPT ![i] = st]
       /\ IF st # OK
            THEN pc' = "Done" /\ ret' = st
            ELSE pc' = "Merge" /\ UNCHANGED ret
  /\ UNCHANGED <<config, num_operations, i, main_locals, worker_locals, slots,
                 mlmd_bench_report, setup_calls, setup_res, worker_fatal,
                 executing>>

\* Lines 157-159 with lines 91-102: fold the slots into slot 0, set the two
\* fields of the summary of workload i from its Report, next iteration.
MergeThreadStatsAndReport ==
  /\ pc = "Merge"
  /\ LET merged == MergeFrom(thread_stats_list, 1, num_threads)
     IN  /\ thread_stats_list' = merged
         /\ mlmd_bench_report' =
              [mlmd_bench_report EXCEPT ![i] =
                 [writes |-> @.writes + 1]]
  /\ i' = i + 1
  /\ pc' = "LoopHead"
  /\ UNCHANGED <<config, num_operations, ret, main_locals, worker_locals, thread_status_list,
                 history>>

----------------------------------------------------------------------------
\* A scheduled closure (lines 144-152) running ExecuteWorkload (lines 60-86).

\* Line 147.
WStart(th) ==
  /\ wpc[th] = "Start"
  /\ thread_stats_list' = [thread_stats_list EXCEPT ![th] = StatsStart(@)]
  /\ wpc' = [wpc EXCEPT ![th] = "Loop"]
  /\ UNCHANGED <<config, num_operations, pc, i, ret, main_locals, wworkload, work_items_index,
                 reg, result, log, thread_status_list, mlmd_bench_report,
                 history>>

\* A variant of WRunOp in which ABORTED advances the cursor before the loop
\* continues.
WRunOpAdvanceOnAbort(th) ==
  /\ wpc[th] = "Loop"
  /\ work_items_index[th] <
       WorkItemsStartIndex(op_per_thread, th) + op_per_thread
  /\ \E status \in {OK, ABORTED} \cup RunOpErrCodes :
       /\ (status = ABORTED => Aborts(log, num_threads) < MaxAborts)
       /\ log' = [log EXCEPT ![th] = Append(@, <<work_items_index[th], status>>)]
       /\ IF IsFatal(status)
            THEN /\ result' = [result EXCEPT ![th] = status]
                 /\ wpc' = [wpc EXCEPT ![th] = "SetStatus"]
                 /\ UNCHANGED work_items_index
            ELSE IF status # OK
              THEN /\ work_items_index' = [work_items_index EXCEPT ![th] = @ + 1]
                   /\ UNCHANGED <<result, wpc>>
              ELSE /\ work_items_index' = [work_items_index EXCEPT ![th] = @ + 1]
                   /\ wpc' = [wpc EXCEPT ![th] = "IncRead"]
                   /\ UNCHANGED result
       /\ worker_fatal' =
            IF status \in RunOpErrCodes
              THEN worker_fatal \cup {status}
              ELSE worker_fatal
  /\ UNCHANGED <<config, num_operations, pc, i, ret, main_locals, wworkload,
                 reg, slots, mlmd_bench_report, setup_calls, setup_res,
                 teardown_calls, teardown_res, executing>>

\* Lines 67-80: the loop test holds; RunOp at the cursor; a fatal status ends
\* the function, ABORTED repeats the iteration, OK advances the cursor.
WRunOp(th) ==
  /\ wpc[th] = "Loop"
  /\ work_items_index[th] <
       WorkItemsStartIndex(op_per_thread, th) + op_per_thread
  /\ \E status \in {OK, ABORTED} \cup RunOpErrCodes :
       /\ (status = ABORTED => Aborts(log, num_threads) < MaxAborts)
       /\ log' = [log EXCEPT ![th] = Append(@, <<work_items_index[th], status>>)]
       /\ IF IsFatal(status)
            THEN /\ result' = [result EXCEPT ![th] = status]
                 /\ wpc' = [wpc EXCEPT ![th] = "SetStatus"]
                 /\ UNCHANGED work_items_index
            ELSE IF status # OK
              THEN UNCHANGED <<result, wpc, work_items_index>>
              ELSE /\ work_items_index' = [work_items_index EXCEPT ![th] = @ + 1]
                   /\ wpc' = [wpc EXCEPT ![th] = "IncRead"]
                   /\ UNCHANGED result
       /\ worker_fatal' =
            IF status \in RunOpErrCodes
              THEN worker_fatal \cup {status}
              ELSE worker_fatal
  /\ UNCHANGED <<config, num_operations, pc, i, ret, main_locals, wworkload, reg, slots,
                 mlmd_bench_report, setup_calls, setup_res, teardown_calls,
                 teardown_res, executing>>

\* Line 81, first half: approx_total_done++ on a plain int64 reads the counter.
WIncRead(th) ==
  /\ wpc[th] = "IncRead"
  /\ reg' = [reg EXCEPT ![th] = approx_total_done]
  /\ wpc' = [wpc EXCEPT ![th] = "IncWrite"]
  /\ UNCHANGED <<config, num_operations, pc, i, ret, main_locals, wworkload, work_items_index,
                 result, log, slots, mlmd_bench_report, history>>

\* A variant of WIncWriteUpdate that does not record the operation.
WIncWriteNoUpdate(th) ==
  /\ wpc[th] = "IncWrite"
  /\ approx_total_done' = reg[th] + 1
  /\ wpc' = [wpc EXCEPT ![th] = "Loop"]
  /\ UNCHANGED <<config, num_operations, pc, i, ret, op_per_thread, stores,
                 store_calls, prepare_res, t, pending, wworkload,
                 work_items_index, reg, result, log, slots,
                 mlmd_bench_report, history>>

\* Lines 81 (second half) and 83: the counter is written with the value read
\* plus one, and the operation is recorded in the worker's own statistics slot
\* (the progress value passed along as a tag is not part of the model).
WIncWriteUpdate(th) ==
  /\ wpc[th] = "IncWrite"
  /\ approx_total_done' = reg[th] + 1
  /\ thread_stats_list' = [thread_stats_list EXCEPT ![th] = StatsUpdate(@)]
  /\ wpc' = [wpc EXCEPT ![th] = "Loop"]
  /\ UNCHANGED <<config, num_operations, pc, i, ret, op_per_thread, stores,
                 store_calls, prepare_res, t, pending, wworkload,
                 work_items_index, reg, result, log, thread_status_list,
                 mlmd_bench_report, history>>

\* Lines 67, 85 and 148: the loop test fails, ExecuteWorkload returns OK and
\* the closure stores it with curr_status.Update.
WLoopExit(th) ==
  /\ wpc[th] = "Loop"
  /\ ~(work_items_index[th] <
         WorkItemsStartIndex(op_per_thread, th) + op_per_thread)
  /\ result' = [result EXCEPT ![th] = OK]
  /\ thread_status_list' =
       [thread_status_list EXCEPT ![th] = StatusUpdate(@, OK)]
  /\ wpc' = [wpc EXCEPT ![th] = "Stop"]
  /\ UNCHANGED <<config, num_operations, pc, i, ret, main_locals, wworkload,
                 work_items_index, reg, log, thread_stats_list,
                 mlmd_bench_report, history>>

\* A variant of WSetStatus that leaves the closure on the fatal exit without
\* calling Stop.
WSetStatusSkipStop(th) ==
  /\ wpc[th] = "SetStatus"
  /\ thread_status_list' =
       [thread_status_list EXCEPT ![th] = StatusUpdate(@, result[th])]
  /\ wpc' = [wpc EXCEPT ![th] = "Done"]
  /\ UNCHANGED <<config, num_operations, pc, i, ret, main_locals, wworkload,
                 work_items_index, reg, result, log, thread_stats_list,
                 mlmd_bench_report, history>>

\* Line 148 after a fatal RunOp: curr_status.Update(result of ExecuteWorkload).
WSetStatus(th) ==
  /\ wpc[th] = "SetStatus"
  /\ thread_status_list' =
       [thread_status_list EXCEPT ![th] = StatusUpdate(@, result[th])]
  /\ wpc' = [wpc EXCEPT ![th] = "Stop"]
  /\ UNCHANGED <<config, num_operations, pc, i, ret, main_locals, wworkload,
                 work_items_index, reg, result, log, thread_stats_list,
                 mlmd_bench_report, history>>

\* Line 151.
WStop(th) ==
  /\ wpc[th] = "Stop"
  /\ thread_stats_list' = [thread_stats_list EXCEPT ![th] = StatsStop(@)]
  /\ wpc' = [wpc EXCEPT ![th] = "Done"]
  /\ UNCHANGED <<config, num_operations, pc, i, ret, main_locals, wworkload, work_items_index,
                 reg, result, log, thread_status_list, mlmd_bench_report,
                 history>>

\* A retry limit of one on the conflicts beyond the recorded ones.
WRunOpRetryCapped(th) ==
  /\ th \in Threads
  /\ wpc[th] = "Loop"
  /\ work_items_index[th] <
       WorkItemsStartIndex(op_per_thread, th) + op_per_thread
  /\ Aborts(log, num_threads) >= MaxAborts
  /\ spin = 0
  /\ spin' = 1 - spin
  /\ UNCHANGED <<num_threads, num_operations, pc, i, ret, main_locals,
                 worker_locals, slots, mlmd_bench_report, history>>

\* Lines 67-79 once more: RunOp returns ABORTED after the MaxAborts conflicts
\* that log records; the loop continues at the same index (line 78) and keeps
\* no count of the retries.
WRunOpRetry(th) ==
  /\ th \in Threads
  /\ wpc[th] = "Loop"
  /\ work_items_index[th] <
       WorkItemsStartIndex(op_per_thread, th) + op_per_thread
  /\ Aborts(log, num_threads) >= MaxAborts
  /\ spin' = 1 - spin
  /\ UNCHANGED <<num_threads, num_operations, pc, i, ret, main_locals,
                 worker_locals, slots, mlmd_bench_report, history>>

Next ==
  \/ LoopHead
  \/ SetUpWorkload
  \/ PrepareStoresForThreads
  \/ CreatePool
  \/ Schedule
  \/ CheckStatus
  \/ Join
  \/ TearDown
  \/ MergeThreadStatsAndReport
  \/ \E th \in Threads : WStart(th)
  \/ \E th \in Threads : WRunOp(th)
  \/ \E th \in Threads : WIncRead(th)
  \/ \E th \in Threads : WIncWriteUpdate(th)
  \/ \E th \in Threads : WLoopExit(th)
  \/ \E th \in Threads : WSetStatus(th)
  \/ \E th \in Threads : WStop(th)

Spec == Init /\ [][Next]_vars

\* The steps of the main thread and of the closure of worker th.
Main ==
  \/ LoopHead
  \/ SetUpWorkload
  \/ PrepareStoresForThreads
  \/ CreatePool
  \/ Schedule
  \/ CheckStatus
  \/ Join
  \/ TearDown
  \/ MergeThreadStatsAndReport

Worker(th) ==
  /\ th \in Threads
  /\ \/ WStart(th)
     \/ WRunOp(th)
     \/ WIncRead(th)
     \/ WIncWriteUpdate(th)
     \/ WLoopExit(th)
     \/ WSetStatus(th)
     \/ WStop(th)

\* The program with conflicts beyond MaxAborts, the main thread and every pool
\* thread scheduled weakly fairly.
FairNext ==
  \/ Main
  \/ \E th \in Threads : Worker(th)
  \/ \E th \in Threads : WRunOpRetry(th)

FairSpec ==
  /\ Init
  /\ [][FairNext]_vars
  /\ WF_vars(Main)
  /\ \A th \in 0 .. (MaxThreads - 1) : WF_vars(Worker(th) \/ WRunOpRetry(th))

TypeOK ==
  /\ pc \in {"LoopHead", "SetUpWorkload", "PrepareStores", "CreatePool",
             "Schedule", "CheckStatus", "Join", "TearDown", "Merge", "Done"}
  /\ i \in 0 .. NumWorkloads
  /\ ret \in {"none", OK} \cup ErrCodes
  /\ \A th \in Threads :
       wpc[th] \in {"Idle", "Start", "Loop", "IncRead", "IncWrite",
                    "SetStatus", "Stop", "Done"}

----------------------------------------------------------------------------
\* Shorthands used by the properties.

AllWorkersDone == \A th \in Threads : wpc[th] = "Done"
NoWorkerStarted ==
  \A th \in Threads : wpc[th] = "Idle" /\ log[th] = <<>>
LaterUntouched(w) ==
  \A v \in Workloads :
    v > w => /\ setup_calls[v] = 0
             /\ setup_res[v] = "none"
             /\ teardown_calls[v] = 0
             /\ mlmd_bench_report[v].writes = 0
\* The workload has been executed to the end of the parallel phase and no
\* RunOp of it returned a fatal status.
FinishedClean ==
  /\ pc \in {"TearDown", "Merge"}
  /\ worker_fatal = {}

----------------------------------------------------------------------------
\* C1, state part: when some worker's RunOp returned a fatal status in the
\* workload being run, the status Run returns is one of those fatal statuses
\* (so it is not OK).
C1_State ==
  (worker_fatal # {} /\ pc = "Done") => ret \in worker_fatal

\* C1, step part: after a worker's RunOp returned a fatal status, SetUp is not
\* called again (on no later workload).
C1_Step == worker_fatal # {} => setup_calls' = setup_calls

\* C1: a worker's fatal status is the status Run returns, and no later workload
\* is set up.
C1_FatalPropagates == []C1_State /\ [][C1_Step]_vars

\* C2: a Report entry is written only for a workload whose SetUp succeeded,
\* none of whose workers hit a fatal status (looked at right after the write of
\* the entry, when the workload's history is still at hand), and whose TearDown
\* succeeded.
C2_ReportOnlyIfCompleted ==
  \A w \in Workloads :
    mlmd_bench_report[w].writes > 0 =>
      /\ setup_res[w] = OK
      /\ teardown_res[w] = OK
      /\ (pc = "LoopHead" /\ i = w + 1) => worker_fatal = {}

\* C3: after all workers of a workload without fatal status have finished,
\* approx_total_done equals the sum of the operations the workers recorded.
C3_CounterEqualsSum ==
  FinishedClean =>
    approx_total_done = SumOps(thread_stats_list, num_threads)

C5_CompletedOps ==
  FinishedClean =>
    LET total == SumOps(thread_stats_list, num_threads)
        T == num_operations
    IN  /\ total = num_threads * (T \div num_threads)
        /\ \A th \in Threads : CountStatus(log[th], OK) = T \div num_threads
        /\ (T % num_threads # 0 => total < T)

\* C5 witness: two workers finished a workload of three operations after a
\* conflict.
C5_Witness ==
  /\ FinishedClean
  /\ num_threads = 2
  /\ num_operations = 3
  /\ SumOps(thread_stats_list, num_threads) = 2
  /\ \E th \in Threads : CountStatus(log[th], ABORTED) > 0

\* C6: worker th calls RunOp only with indices of its own range
\* [th*(T div N), (th+1)*(T div N)); no index is used by two workers and no
\* index >= N*(T div N) is used.
C6_OwnRange ==
  /\ \A th \in Threads :
       LET q == num_operations \div num_threads
       IN  \A k \in 1 .. Len(log[th]) :
             /\ th * q <= log[th][k][1]
             /\ log[th][k][1] < (th + 1) * q
             /\ log[th][k][1] < num_threads * q
  /\ \A a \in Threads, b \in Threads :
       a # b =>
         \A k \in 1 .. Len(log[a]), m \in 1 .. Len(log[b]) :
           log[a][k][1] # log[b][m][1]

\* C6 witness: two workers have both called RunOp, the second one on the last
\* index of its range.
C6_Witness ==
  /\ num_threads = 2
  /\ i \in Workloads
  /\ num_operations = 3
  /\ log[0] # <<>>
  /\ log[1] # <<>>
  /\ log[1][Len(log[1])][1] = 1

\* C7, state part: ABORTED is never a worker's status, ExecuteWorkload's
\* result, or the status Run returns; after an ABORTED call the next call of
\* the worker uses the same index; an index that succeeded has exactly one
\* successful call, and until the merge the worker's statistics count each
\* success once.
C7_State ==
  /\ ret # ABORTED
  /\ pending # ABORTED
  /\ \A th \in Threads :
       /\ thread_status_list[th] # ABORTED
       /\ result[th] # ABORTED
       /\ \A k \in 1 .. (Len(log[th]) - 1) :
            log[th][k][2] = ABORTED => log[th][k + 1][1] = log[th][k][1]
       /\ \A k \in 1 .. Len(log[th]) :
            log[th][k][2] = OK =>
              \A m \in 1 .. Len(log[th]) :
                (m # k /\ log[th][m][1] = log[th][k][1]) =>
                  (m < k /\ log[th][m][2] = ABORTED)
       /\ (wworkload[th] = i /\ wpc[th] \in {"Loop", "SetStatus", "Stop", "Done"}) =>
            thread_stats_list[th].ops = CountStatus(log[th], OK)

\* C7, step part: the step in which RunOp returns ABORTED changes neither the
\* worker's cursor, nor any statistics object, nor the progress counter, and
\* leaves the worker in its loop.
C7_Step ==
  \A th \in Threads :
    (/\ Len(log'[th]) = Len(log[th]) + 1
     /\ log'[th][Len(log'[th])][2] = ABORTED) =>
      /\ work_items_index'[th] = work_items_index[th]
      /\ thread_stats_list' = thread_stats_list
      /\ thread_status_list' = thread_status_list
      /\ approx_total_done' = approx_total_done
      /\ wpc'[th] = "Loop"

\* C7: a retryable conflict leaves cursor, statistics and progress counter
\* unchanged, is retried on the same index, never becomes a terminal or
\* returned status, and the index is recorded once when it succeeds.
C7_RetryableConflict == []C7_State /\ [][C7_Step]_vars

\* C7 witness: a worker finished with OK after an index conflicted and then
\* succeeded, recorded once.
C7_Witness ==
  \E th \in Threads :
    /\ wpc[th] = "Done"
    /\ thread_status_list[th] = OK
    /\ Len(log[th]) >= 2
    /\ log[th][1][2] = ABORTED
    /\ log[th][2] = <<log[th][1][1], OK>>
    /\ thread_stats_list[th].ops = Len(log[th]) - 1

\* C8, state part: if the setup client or SetUp failed for workload w, Run has
\* returned that error, no worker was scheduled, no RunOp was called, no
\* per-worker client was created, entry w was not written and no later
\* workload was processed.
C8_State ==
  \A w \in Workloads :
    setup_res[w] \in ErrCodes =>
      /\ pc = "Done"
      /\ i = w
      /\ ret = setup_res[w]
      /\ NoWorkerStarted
      /\ stores = 0
      /\ store_calls = 0
      /\ w \notin executing
      /\ mlmd_bench_report[w].writes = 0
      /\ LaterUntouched(w)

\* C8, step part: the setup step leaves every Report entry unchanged.
C8_Step == pc = "SetUpWorkload" => mlmd_bench_report' = mlmd_bench_report

\* C8: a failure of the setup client or of SetUp is returned by Run, with no
\* worker, no RunOp, no per-worker client, no Report write and no later
\* workload.
C8_SetUpFailure == []C8_State /\ [][C8_Step]_vars

\* C8 witness: SetUp failed for the second workload after the first one was
\* reported.
C8_Witness ==
  /\ pc = "Done"
  /\ i = 1
  /\ setup_res[1] \in ErrCodes
  /\ setup_calls[1] = 1
  /\ mlmd_bench_report[0].writes = 1

\* C9: within a workload, workers run only after SetUp succeeded and the N
\* clients exist; TearDown runs only after all workers finished; the Report
\* entry is written only after TearDown succeeded; SetUp of the next workload
\* is called only after the previous entry was written; all operations in
\* flight belong to the current workload.
C9_Order ==
  /\ \A th \in Threads :
       wpc[th] # "Idle" =>
         /\ setup_res[wworkload[th]] = OK
         /\ wworkload[th] \in executing
         /\ (wworkload[th] = i => stores = num_threads)
  /\ \A th \in Threads :
       wpc[th] \notin {"Idle", "Done"} =>
         /\ wworkload[th] = i
         /\ pc \in {"Schedule", "CheckStatus", "Join"}
         /\ teardown_calls[i] = 0
         /\ mlmd_bench_report[i].writes = 0
  /\ \A w \in Workloads :
       /\ mlmd_bench_report[w].writes > 0 =>
            teardown_res[w] = OK /\ setup_res[w] = OK
       /\ teardown_calls[w] > 0 => setup_res[w] = OK /\ w \in executing
       /\ (w > 0 /\ setup_res[w] # "none") =>
            mlmd_bench_report[w - 1].writes = 1
       /\ mlmd_bench_report[w].writes <= 1

\* C9 witness: the second workload has workers running after the first one was
\* reported.
C9_Witness ==
  /\ i = 1
  /\ mlmd_bench_report[0].writes = 1
  /\ \E th \in Threads : wpc[th] = "IncWrite"

\* C10: if a per-worker client creation failed, Run has returned that error,
\* no worker was scheduled and no RunOp called, the failing creation was the
\* last one (no retry), the entry was not written and no later workload was
\* processed.
C10_PrepareFailure ==
  prepare_res \in ErrCodes =>
    /\ pc = "Done"
    /\ ret = prepare_res
    /\ NoWorkerStarted
    /\ i \notin executing
    /\ stores < num_threads
    /\ store_calls = stores + 1
    /\ mlmd_bench_report[i].writes = 0
    /\ teardown_calls[i] = 0
    /\ LaterUntouched(i)

\* C10 witness: the second of two client creations failed.
C10_Witness ==
  /\ prepare_res \in ErrCodes
  /\ num_threads = 2
  /\ stores = 1
  /\ store_calls = 2
  /\ pc = "Done"

\* C11: if TearDown returned an error for workload w, Run has returned exactly
\* that error, entry w of the Report was not written and no later workload was
\* set up or executed.
C11_TearDownFailure ==
  \A w \in Workloads :
    teardown_res[w] \in ErrCodes =>
      /\ pc = "Done"
      /\ i = w
      /\ ret = teardown_res[w]
      /\ teardown_calls[w] = 1
      /\ mlmd_bench_report[w].writes = 0
      /\ LaterUntouched(w)

\* C11 witness: TearDown failed after all workers of a workload with
\* operations had finished.
C11_Witness ==
  /\ pc = "Done"
  /\ i \in Workloads
  /\ teardown_res[i] \in ErrCodes
  /\ AllWorkersDone
  /\ \E th \in Threads : thread_stats_list[th].ops > 0

\* The merge of the workload whose workers' state is at hand has just run.
JustMerged ==
  /\ pc = "LoopHead"
  /\ i >= 1
  /\ wworkload[0] = i - 1
  /\ mlmd_bench_report[i - 1].writes = 1

\* Operations recorded by the workers, counted from their RunOp logs.
RECURSIVE LoggedOps(_, _)
LoggedOps(logs, n) ==
  IF n = 0 THEN 0 ELSE CountStatus(logs[n - 1], OK) + LoggedOps(logs, n - 1)

\* C12: right after the merge, slot 0 (from which the Report entry is made)
\* holds the operations of all N workers: those the workers logged, the other
\* slots being unchanged; for a workload without fatal status that is
\* N * (T div N), whatever the interleaving and the conflicts.
C12_MergedAccumulator ==
  JustMerged =>
    /\ thread_stats_list[0].ops = LoggedOps(log, num_threads)
    /\ \A th \in Threads :
         th # 0 => thread_stats_list[th].ops = CountStatus(log[th], OK)
    /\ worker_fatal = {} =>
         thread_stats_list[0].ops =
           num_threads * (num_operations \div num_threads)

\* C12 witness: two workers with one operation each were merged after a
\* conflict.
C12_Witness ==
  /\ JustMerged
  /\ worker_fatal = {}
  /\ num_threads = 2
  /\ thread_stats_list[0].ops = 2
  /\ thread_stats_list[1].ops = 1
  /\ Aborts(log, num_threads) > 0

\* C13: for a workload that reached the executing phase, the engine is past
\* the parallel phase (at TearDown, at the merge, or returned) only when all N
\* workers were started and have finished.
C13_AllWorkersJoin ==
  (i \in executing /\ pc \in {"TearDown", "Merge", "Done"}) => AllWorkersDone

\* The worker was scheduled for the workload being run and its slots were not
\* merged yet.
Live(th) == wpc[th] # "Idle" /\ wworkload[th] = i

\* Start index and share of a worker, from the declared operation count.
OwnStart(th) == th * (num_operations \div num_threads)
OwnCount == num_operations \div num_threads

\* The two ways a worker finishes: with OK after succeeding on its whole range
\* with exactly op_per_thread Update calls, or with the fatal status of its last
\* RunOp, after which it calls neither RunOp nor Update.
C14_Finish ==
  \A th \in Threads :
    Live(th) =>
      /\ (wpc[th] \in {"Stop", "Done"} /\ result[th] = OK) =>
           /\ thread_status_list[th] = OK
           /\ work_items_index[th] = OwnStart(th) + OwnCount
           /\ thread_stats_list[th].ops = OwnCount
           /\ CountStatus(log[th], OK) = OwnCount
      /\ result[th] # OK =>
           /\ result[th] \in RunOpErrCodes
           /\ wpc[th] \in {"SetStatus", "Stop", "Done"}
           /\ log[th] # <<>>
           /\ log[th][Len(log[th])] = <<work_items_index[th], result[th]>>
           /\ thread_stats_list[th].ops = CountStatus(log[th], OK)
           /\ wpc[th] \in {"Stop", "Done"} => thread_status_list[th] = result[th]
      /\ \A k \in 1 .. (Len(log[th]) - 1) : ~IsFatal(log[th][k][2])

\* C14 (as stated): the two ways of finishing, and at every moment the number
\* of Update calls of a worker equals its cursor minus its start index.
C14_UpdatesAtEveryMoment ==
  /\ C14_Finish
  /\ \A th \in Threads :
       Live(th) =>
         thread_stats_list[th].ops = work_items_index[th] - OwnStart(th)

\* C14 (amended): the two ways of finishing; the number of Update calls equals
\* the cursor minus the start index whenever the worker is at the loop test or
\* has left the loop, and is one less between the cursor's increment (line 80)
\* and the Update call (line 83) of a successful iteration.
C14_UpdatesAtLoopHead ==
  /\ C14_Finish
  /\ \A th \in Threads :
       Live(th) =>
         thread_stats_list[th].ops =
           work_items_index[th] - OwnStart(th)
             - (IF wpc[th] \in {"IncRead", "IncWrite"} THEN 1 ELSE 0)

\* C14 witness: a worker finished with a fatal status after one recorded
\* operation.
C14_Witness ==
  \E th \in Threads :
    /\ Live(th)
    /\ wpc[th] = "Done"
    /\ result[th] \in RunOpErrCodes
    /\ thread_stats_list[th].ops = 1

\* C15: within one worker the indices passed to RunOp never decrease, and the
\* indices on which RunOp succeeded are the worker's start index, start + 1,
\* ... in this order, none skipped and none twice.
C15_IndexOrder ==
  \A th \in Threads :
    /\ \A k \in 1 .. (Len(log[th]) - 1) : log[th][k][1] <= log[th][k + 1][1]
    /\ \A k \in 1 .. Len(log[th]) :
         log[th][k][2] = OK =>
           log[th][k][1] =
             OwnStart(th) + CountStatus(SubSeq(log[th], 1, k - 1), OK)

\* C15 witness: the second worker has succeeded on its whole range, after a
\* conflict, while the first worker, scheduled before it, has not yet run: the
\* order of the operations of two workers is not that of their scheduling.
C15_Witness ==
  /\ num_threads = 2
  /\ wpc[0] = "Start"
  /\ wpc[1] = "Done"
  /\ Len(log[1]) = 2
  /\ log[1][1][2] = ABORTED
  /\ log[1][2][2] = OK

\* The opposite order of C15_Witness: the first worker has finished its range
\* before the second one has run.
C15_WitnessOpposite ==
  /\ num_threads = 2
  /\ wpc[1] = "Start"
  /\ wpc[0] = "Done"
  /\ CountStatus(log[0], OK) = 1

\* C16: a worker's statistics are started exactly once, after provisioning
\* and before its first RunOp, and stopped exactly once, after its last RunOp,
\* on the OK exit and on the fatal exit; RunOp and Update happen only between
\* Start and Stop.
C16_StartStopBracket ==
  \A th \in Threads :
    LET s == thread_stats_list[th]
    IN  /\ wpc[th] \in {"Idle", "Start"} =>
             s.starts = 0 /\ s.stops = 0 /\ s.ops = 0 /\ log[th] = <<>>
        /\ wpc[th] \in {"Loop", "IncRead", "IncWrite", "SetStatus", "Stop"} =>
             s.starts = 1 /\ s.stops = 0
        /\ wpc[th] = "Done" => s.starts = 1 /\ s.stops = 1
        /\ s.starts > 0 =>
             /\ stores = num_threads
             /\ prepare_res = OK
             /\ wworkload[th] \in executing

\* C16 witness: a worker left the loop with a fatal status after a successful
\* operation and has stopped its statistics.
C16_Witness ==
  \E th \in Threads :
    /\ wpc[th] = "Done"
    /\ result[th] \in RunOpErrCodes
    /\ Len(log[th]) >= 2
    /\ thread_stats_list[th].starts = 1
    /\ thread_stats_list[th].stops = 1

\* No worker has called RunOp or recorded anything, and all statuses are OK.
NothingRun ==
  /\ \A th \in Threads :
       /\ log[th] = <<>>
       /\ thread_stats_list[th].ops = 0
       /\ thread_status_list[th] = OK
       /\ result[th] = OK
  /\ approx_total_done = 0
  /\ pending = OK
  /\ worker_fatal = {}

\* C17: when the declared operation count is smaller than the number of
\* workers, no worker calls RunOp or records an operation, the progress counter
\* stays 0 and every worker's status is OK; Run leaves the workload only
\* through TearDown: it returns only TearDown's error, and otherwise merges,
\* writes the Report entry and goes on to the loop test of the next workload.
C17_EmptyRange ==
  /\ (i \in executing /\ num_operations < num_threads) =>
       /\ NothingRun
       /\ pc = "Done" =>
            /\ AllWorkersDone
            /\ teardown_calls[i] = 1
            /\ teardown_res[i] \in ErrCodes
            /\ ret = teardown_res[i]
       /\ pc \in {"TearDown", "Merge"} =>
            \A th \in Threads :
              /\ wpc[th] = "Done"
              /\ thread_stats_list[th].starts = 1
              /\ thread_stats_list[th].stops = 1
  /\ (JustMerged /\ num_operations < num_threads) =>
       /\ NothingRun
       /\ teardown_res[i - 1] = OK

\* C17 witness: a workload of one operation on two workers was merged and
\* reported, and the loop is at the next workload.
C17_Witness ==
  /\ JustMerged
  /\ num_threads = 2
  /\ num_operations = 1
  /\ i < NumWorkloads
  /\ NothingRun
  /\ AllWorkersDone

\* A step in which RunOp returns a retryable conflict.
ConflictStep ==
  \/ \E th \in 0 .. (MaxThreads - 1) : WRunOpRetry(th)
  \/ \E th \in Threads : Len(log'[th]) = Len(log[th]) + 1
                         /\ log'[th][Len(log'[th])][2] = ABORTED

\* Run has returned and every scheduled closure has run to its end.
Returned ==
  /\ pc = "Done"
  /\ ret # "none"
  /\ \A th \in Threads : wpc[th] \in {"Idle", "Done"}

\* A worker inside its range is never refused another retry.
NoRetryLimit ==
  \A th \in Threads :
    ( /\ wpc[th] = "Loop"
      /\ work_items_index[th] <
           WorkItemsStartIndex(op_per_thread, th) + op_per_thread
      /\ Aborts(log, num_threads) >= MaxAborts )
    => ENABLED WRunOpRetry(th)

\* C18: a retryable conflict is retried without a limit: a worker inside its
\* range can always retry once more, and under weak fairness of the main thread
\* and of the workers, if conflicts are returned only finitely often then every
\* scheduled worker finishes and Run returns.
C18_UnboundedRetry ==
  /\ []NoRetryLimit
  /\ (<>[][~ConflictStep]_vars) => <>Returned

\* C18, the livelock: under the same fairness and without the assumption, Run
\* returns in every execution. An execution that violates this is one in which
\* a worker calls RunOp on one index forever.
C18_AlwaysReturns == <>Returned

\* C18 witness: Run returned OK after conflicts beyond the recorded ones.
C18_Witness ==
  /\ Returned
  /\ ret = OK
  /\ spin = 1
  /\ Aborts(log, num_threads) = MaxAborts

\* The parallel phase: the pool block of lines 133-155.
ParallelPhase == pc \in {"Schedule", "CheckStatus", "Join"}

\* During the parallel phase slot th changes only in a step of worker th.
C19_OwnerWrites ==
  [][ParallelPhase =>
       \A th \in Threads :
         (thread_stats_list'[th] # thread_stats_list[th]
            \/ thread_status_list'[th] # thread_status_list[th])
         => wpc'[th] # wpc[th] \/ log'[th] # log[th]]_vars

\* C19: the engine reads a worker's status slot (line 153) or statistics slot
\* (lines 94-96) only after that worker has stopped.
C19_EngineReadsAfterStop ==
  /\ pc = "CheckStatus" => wpc[t] = "Done"
  /\ pc = "Merge" => AllWorkersDone

\* Run has returned: no scheduled closure is still executing.
C20_State ==
  pc = "Done" => \A th \in Threads : wpc[th] \in {"Idle", "Done"}

\* Once Run has returned nothing touches the slots, the client handles, the
\* progress counter or a closure's state.
C20_Step ==
  pc = "Done" =>
    UNCHANGED <<slots, stores, approx_total_done, worker_locals>>

\* C20: on every path by which Run returns, every scheduled worker has run to
\* its end, and after the return no worker accesses the statistics slots, the
\* status slots, the client handles or the progress counter.
C20_NoWorkerAfterReturn == []C20_State /\ [][C20_Step]_vars

\* C20 witness: Run returned the error read at line 153 for worker 0; worker 0
\* has stopped and worker 1 was never scheduled.
C20_Witness ==
  /\ pc = "Done"
  /\ pending # OK
  /\ ret = pending
  /\ num_threads = 2
  /\ t = 0
  /\ wpc[0] = "Done"
  /\ wpc[1] = "Idle"

====
